---- MODULE Spec2Model ----
(***************************************************************************)
(* Face identification and attendance recording: the /api/face/verify      *)
(* handler (verify_face in app.py) run by concurrent workers against one   *)
(* attendance table.                                                       *)
(*                                                                         *)
(* Times are whole seconds since 00:00 UTC of day 0.  Similarity scores    *)
(* and the threshold are hundredths (0.75 is 75).                          *)
(***************************************************************************)
EXTENDS Integers, Sequences, FiniteSets, TLC

\* ------------------------------------------------------------ bounds
\* Requests received in a run, over all workers.
MaxRequests == 3
\* Advances of the wall clock in a run.
MaxTicks == 2

\* Concurrent request handlers (web server workers).
Workers == {1, 2}
\* Non-admin users (User.query.filter_by(is_admin=False)).
Employees == {1, 2}
\* Similarity scores a comparison can return (hundredths).
Scores == {0, 74, 75, 80}
\* Values of the FACE_RECOGNITION_THRESHOLD setting (hundredths).
Thresholds == {0, 75}
\* Wall-clock readings at the start of a run: 09:15:00 and 09:30:00 of day 0.
StartTimes == {33300, 34200}
\* Amounts the wall clock advances by: 1 s, 9 min 59 s, 10 min, one day.
TickSteps == {1, 599, 600, 86400}

\* ------------------------------------------------- program constants
\* FACE_RECOGNITION_THRESHOLD, default 0.75.
FACE_RECOGNITION_THRESHOLD == 75
\* WORKING_HOURS_START, default 09:00, as seconds after midnight.
WORKING_HOURS_START == 32400
\* LATE_THRESHOLD_MINUTES, default 30.
LATE_THRESHOLD_MINUTES == 30
\* Minimum seconds between clock-in and clock-out.
MIN_SESSION_SECONDS == 600
\* highest_similarity before the loop.
InitialSimilarity == 0
SecondsPerDay == 86400
SecondsPerMinute == 60

\* Python's None, for an employee, a row id or a time.
None == 0 - 1

VARIABLES
    threshold,  \* the configured FACE_RECOGNITION_THRESHOLD
    roster,     \* employees with a stored face_embedding
    clock,      \* datetime.utcnow()
    ticks,      \* clock advances so far
    db,         \* the attendance table: rows in insertion order, id = index
    outbox,     \* messages handed to mail.send successfully
    served,     \* requests received so far
    req         \* per worker: the request it is handling

vars == <<threshold, roster, clock, ticks, db, outbox, served, req>>

\* ------------------------------------------------------------ inputs
NoSims == [e \in Employees |-> 0]

\* The JSON body of a request: no 'image' key ("missing"), an image string
\* without the 'data:image' prefix ("raw"), or a data URL in which
\* process_image finds a face or not.  sims[e] is the similarity of the
\* face's embedding to employee e's stored embedding.
Image(kind, face, sims) == [kind |-> kind, face |-> face, sims |-> sims]

\* Every probe: any combination of scores against the employees.
AllProbes == {Image("dataurl", TRUE, s) : s \in [Employees -> Scores]}

\* The face of employee x (a clear match for x alone) and a stranger's face
\* (just below the default threshold against everybody).
FaceOf(x) == Image("dataurl", TRUE, [e \in Employees |-> IF e = x THEN 80 ELSE 0])
Stranger == Image("dataurl", TRUE, [e \in Employees |-> 74])

\* The request bodies the attendance stations send.
Images ==
    {Image("missing", FALSE, NoSims), Image("raw", TRUE, NoSims),
     Image("raw", FALSE, NoSims), Image("dataurl", FALSE, NoSims), Stranger}
    \cup {FaceOf(x) : x \in Employees}

\* The orders in which a query without ORDER BY can return the employees.
Orders ==
    {o \in [1..Cardinality(Employees) -> Employees] :
        \A i, j \in DOMAIN o : i # j => o[i] # o[j]}

Idle ==
    [pc |-> "idle", image |-> [kind |-> "missing", face |-> FALSE, sims |-> NoSims],
     best_match |-> None, highest |-> InitialSimilarity, now |-> None,
     status |-> "", existing |-> None, ex_time_in |-> None,
     ex_time_out |-> None, response |-> ""]

\* --------------------------------------------------------- matching
\* compare_faces(embedding, stored_embedding): the similarity.
compare_faces(image, e) == image.sims[e]

\* The loop body without the comparison against the best so far: every
\* enrolled employee with a positive score replaces the candidate.
LoopBodyKeepsLast(image, e, best) ==
    IF e \in roster /\ compare_faces(image, e) > InitialSimilarity
    THEN <<e, compare_faces(image, e)>>
    ELSE best

\* One iteration of the loop: the (best_match, highest_similarity) pair
\* after looking at employee e.
LoopBody(image, e, best) ==
    IF e \in roster /\ compare_faces(image, e) > best[2]
    THEN <<e, compare_faces(image, e)>>
    ELSE best

\* The loop over the employees in the order the query returned them.
RECURSIVE MatchLoop(_, _, _, _)
MatchLoop(image, order, i, best) ==
    IF i > Len(order) THEN best
    ELSE MatchLoop(image, order, i + 1, LoopBody(image, order[i], best))

BestMatch(image, order) ==
    MatchLoop(image, order, 1, <<None, InitialSimilarity>>)

\* The acceptance test without the threshold.
AcceptedAnyCandidate(best) == best[1] # None

\* "if best_match and highest_similarity >= FACE_RECOGNITION_THRESHOLD"
Accepted(best) == best[1] # None /\ best[2] >= threshold

\* ----------------------------------------------------------- time
Day(t) == t \div SecondsPerDay
Midnight(t) == Day(t) * SecondsPerDay
LateTime(now) ==
    Midnight(now) + WORKING_HOURS_START + LATE_THRESHOLD_MINUTES * SecondsPerMinute
\* The status with the cut-off itself counted as late.
StatusStrict(now) == IF now < LateTime(now) THEN "present" ELSE "late"
Status(now) == IF now <= LateTime(now) THEN "present" ELSE "late"

\* The query without the filter on today.
TodaysRowsAnyDay(e, now) == {i \in DOMAIN db : db[i].employee_id = e}

\* Rows the query of today's attendance can return for employee e.
TodaysRows(e, now) ==
    {i \in DOMAIN db :
        db[i].employee_id = e /\ db[i].timestamp >= Midnight(now)}

\* Attendance.set_time_out(now)
set_time_out(row, now) == [row EXCEPT !.time_out = now]

\* Attendance(employee_id, time_in=now, status, timestamp=now)
NewAttendance(e, now, status) ==
    [employee_id |-> e, time_in |-> now, time_out |-> None,
     status |-> status, timestamp |-> now]

\* ------------------------------------------------------------ Init
Init ==
    /\ threshold = FACE_RECOGNITION_THRESHOLD
    /\ roster \in {{}, Employees}
    /\ clock \in StartTimes
    /\ ticks = 0
    /\ db = <<>>
    /\ outbox = {}
    /\ served = 0
    /\ req = [w \in Workers |-> Idle]

\* ---------------------------------------------------------- actions
\* The wall clock advances.
Tick(d) ==
    /\ ticks < MaxTicks
    /\ clock' = clock + d
    /\ ticks' = ticks + 1
    /\ UNCHANGED <<threshold, roster, db, outbox, served, req>>

\* A POST /api/face/verify reaches worker w, which is free: it has handled
\* no request yet or has returned the response of its last one.
Receive(w, image) ==
    /\ req[w].pc \in {"idle", "done"}
    /\ served < MaxRequests
    /\ served' = served + 1
    /\ req' = [req EXCEPT ![w] = [Idle EXCEPT !.pc = "received", !.image = image]]
    /\ UNCHANGED <<threshold, roster, clock, ticks, db, outbox>>

\* jsonify(...): the reply, with the employee's name when there is a match.
\* The handler's locals end with the request.
Respond(e, text) == [Idle EXCEPT !.pc = "done", !.best_match = e, !.response = text]

\* Decoding the image and finding the best match among the employees.
Match(w, order) ==
    LET r == req[w]
        best == BestMatch(r.image, order)
    IN  /\ r.pc = "received"
        /\ req' = [req EXCEPT ![w] =
             IF r.image.kind = "missing" THEN Respond(None, "no_image")
             ELSE IF r.image.kind = "raw" THEN Respond(None, "error")
             ELSE IF ~r.image.face THEN Respond(None, "no_face")
             ELSE IF Accepted(best)
                  THEN [r EXCEPT !.pc = "matched", !.best_match = best[1],
                                 !.highest = best[2]]
                  ELSE Respond(None, "not_recognized")]
        /\ UNCHANGED <<threshold, roster, clock, ticks, db, outbox, served>>

\* now = datetime.utcnow() and the status derived from it.
ReadClock(w) ==
    LET r == req[w]
    IN  /\ r.pc = "matched"
        /\ req' = [req EXCEPT ![w] =
             [Idle EXCEPT !.pc = "timed", !.best_match = r.best_match,
                          !.now = clock, !.status = Status(clock)]]
        /\ UNCHANGED <<threshold, roster, clock, ticks, db, outbox, served>>

\* existing = Attendance.query...first(): some row of today, or None.
QueryFound(w, i) ==
    LET r == req[w]
    IN  /\ r.pc = "timed"
        /\ i \in TodaysRows(r.best_match, r.now)
        /\ req' = [req EXCEPT ![w] =
             [r EXCEPT !.pc = "queried", !.existing = i,
                       !.ex_time_in = db[i].time_in,
                       !.ex_time_out = db[i].time_out]]
        /\ UNCHANGED <<threshold, roster, clock, ticks, db, outbox, served>>

QueryNone(w) ==
    LET r == req[w]
    IN  /\ r.pc = "timed"
        /\ TodaysRows(r.best_match, r.now) = {}
        /\ req' = [req EXCEPT ![w] = [r EXCEPT !.pc = "queried"]]
        /\ UNCHANGED <<threshold, roster, clock, ticks, db, outbox, served>>

\* The ten-minute test with exactly ten minutes still refused.
TooSoonGuardInclusive(now, time_in) == now - time_in <= MIN_SESSION_SECONDS

\* The ten-minute test with the comparison reversed.
TooSoonGuardReversed(now, time_in) == now - time_in > MIN_SESSION_SECONDS

\* time_diff.total_seconds() < 600
TooSoonGuard(now, time_in) == now - time_in < MIN_SESSION_SECONDS

\* A refusal that closes the session all the same.
TooSoonClosing(w) ==
    LET r == req[w]
    IN  /\ r.pc = "queried"
        /\ r.existing # None
        /\ r.ex_time_out = None
        /\ r.now - r.ex_time_in < MIN_SESSION_SECONDS
        /\ db' = [db EXCEPT ![r.existing] = set_time_out(@, r.now)]
        /\ req' = [req EXCEPT ![w] = Respond(r.best_match, "minimum_time_not_met")]
        /\ UNCHANGED <<threshold, roster, clock, ticks, outbox, served>>

\* The open session is younger than ten minutes: the clock-out is refused.
TooSoon(w) ==
    LET r == req[w]
    IN  /\ r.pc = "queried"
        /\ r.existing # None
        /\ r.ex_time_out = None
        /\ TooSoonGuard(r.now, r.ex_time_in)
        /\ req' = [req EXCEPT ![w] = Respond(r.best_match, "minimum_time_not_met")]
        /\ UNCHANGED <<threshold, roster, clock, ticks, db, outbox, served>>

\* The transition is committed; its notification is still to be sent.
Pending(r, row, text) ==
    [Idle EXCEPT !.pc = "notify", !.best_match = r.best_match,
                 !.existing = row, !.response = text]

\* A clock-out that also stores the status computed for this request.
ClockOutRestamps(w) ==
    LET r == req[w]
    IN  /\ r.pc = "queried"
        /\ r.existing # None
        /\ r.ex_time_out = None
        /\ ~(r.now - r.ex_time_in < MIN_SESSION_SECONDS)
        /\ db' = [db EXCEPT ![r.existing] =
                    [set_time_out(@, r.now) EXCEPT !.status = r.status]]
        /\ req' = [req EXCEPT ![w] = Pending(r, r.existing, "clocked_out")]
        /\ UNCHANGED <<threshold, roster, clock, ticks, outbox, served>>

\* existing.set_time_out(now); db.session.commit()
ClockOut(w) ==
    LET r == req[w]
    IN  /\ r.pc = "queried"
        /\ r.existing # None
        /\ r.ex_time_out = None
        /\ ~TooSoonGuard(r.now, r.ex_time_in)
        /\ db' = [db EXCEPT ![r.existing] = set_time_out(@, r.now)]
        /\ req' = [req EXCEPT ![w] = Pending(r, r.existing, "clocked_out")]
        /\ UNCHANGED <<threshold, roster, clock, ticks, outbox, served>>

\* The session found is closed.
AlreadyMarked(w) ==
    LET r == req[w]
    IN  /\ r.pc = "queried"
        /\ r.existing # None
        /\ r.ex_time_out # None
        /\ req' = [req EXCEPT ![w] = Respond(r.best_match, "already_marked")]
        /\ UNCHANGED <<threshold, roster, clock, ticks, db, outbox, served>>

\* db.session.add(attendance); db.session.commit()
ClockIn(w) ==
    LET r == req[w]
    IN  /\ r.pc = "queried"
        /\ r.existing = None
        /\ db' = Append(db, NewAttendance(r.best_match, r.now, r.status))
        /\ req' = [req EXCEPT ![w] = Pending(r, Len(db) + 1, r.status)]
        /\ UNCHANGED <<threshold, roster, clock, ticks, outbox, served>>

\* A failed send that escapes to the handler's except branch: the reply
\* becomes the error reply.
NotifyRaises(w, ok) ==
    LET r == req[w]
    IN  /\ r.pc = "notify"
        /\ outbox' = IF ok
                     THEN outbox \cup {[to |-> r.best_match, row |-> r.existing,
                                        kind |-> r.response]}
                     ELSE outbox
        /\ req' = [req EXCEPT ![w] =
             IF ok THEN Respond(r.best_match, r.response) ELSE Respond(None, "error")]
        /\ UNCHANGED <<threshold, roster, clock, ticks, db, served>>

\* send_attendance_notification: mail.send succeeds or raises; the
\* exception is swallowed and the reply is the one already decided.
Notify(w, ok) ==
    LET r == req[w]
    IN  /\ r.pc = "notify"
        /\ outbox' = IF ok
                     THEN outbox \cup {[to |-> r.best_match, row |-> r.existing,
                                        kind |-> r.response]}
                     ELSE outbox
        /\ req' = [req EXCEPT ![w] = Respond(r.best_match, r.response)]
        /\ UNCHANGED <<threshold, roster, clock, ticks, db, served>>

Next ==
    \/ \E d \in TickSteps : Tick(d)
    \/ \E w \in Workers, image \in Images : Receive(w, image)
    \/ \E w \in Workers, order \in Orders : Match(w, order)
    \/ \E w \in Workers : ReadClock(w)
    \/ \E w \in Workers, i \in DOMAIN db : QueryFound(w, i)
    \/ \E w \in Workers : QueryNone(w)
    \/ \E w \in Workers : TooSoon(w)
    \/ \E w \in Workers : ClockOut(w)
    \/ \E w \in Workers : AlreadyMarked(w)
    \/ \E w \in Workers : ClockIn(w)
    \/ \E w \in Workers, ok \in BOOLEAN : Notify(w, ok)

Spec == Init /\ [][Next]_vars

\* ------------------------------------------- the matcher on its own
\* The matching step applied to every probe, under every threshold setting
\* and every set of enrolled employees.
InitMatch ==
    /\ threshold \in Thresholds
    /\ roster \in SUBSET Employees
    /\ clock \in StartTimes
    /\ ticks = 0
    /\ db = <<>>
    /\ outbox = {}
    /\ served = 0
    /\ req = [w \in Workers |-> Idle]

NextMatch ==
    \/ \E w \in Workers, image \in AllProbes : Receive(w, image)
    \/ \E w \in Workers, order \in Orders : Match(w, order)

SpecMatch == InitMatch /\ [][NextMatch]_vars

\* ------------------------------------------------------ vocabulary
\* The sessions of employee e that belong to calendar day d.
SessionsOf(e, d) ==
    {i \in DOMAIN db : db[i].employee_id = e /\ Day(db[i].timestamp) = d}

\* Worker w takes the step that decides its request against the ledger.
Decides(w) == req[w].pc = "queried" /\ req'[w].pc # "queried"

\* Worker w takes the matching step on an image with a face in it.
Matches(w) ==
    /\ req[w].pc = "received" /\ req'[w].pc # "received"
    /\ req[w].image.kind = "dataurl" /\ req[w].image.face

\* The best similarity of a probe over the enrolled employees.
MaxScore(image) ==
    CHOOSE m \in {image.sims[e] : e \in roster} :
        \A e \in roster : image.sims[e] <= m

\* --------------------------------------------------------- claims
\* C1: at most one attendance session exists per (employee, calendar day),
\* whatever the interleaving of concurrent requests.
C1_OneSessionPerDay ==
    \A i, j \in DOMAIN db :
        i # j => ~(/\ db[i].employee_id = db[j].employee_id
                   /\ Day(db[i].timestamp) = Day(db[j].timestamp))

\* C2: time_out of a session, once set, never changes.
C2_TimeOutSetOnce ==
    [][\A i \in DOMAIN db :
          db[i].time_out # None => db'[i].time_out = db[i].time_out]_vars

\* C3: a request that found no session and decides when the employee's
\* day already has one (the loser of a creation race) is answered
\* already_marked and adds no session.
C3_LoserAlreadyMarked ==
    [][\A w \in Workers :
          (/\ Decides(w)
           /\ req[w].existing = None
           /\ SessionsOf(req[w].best_match, Day(req[w].now)) # {})
          => (req'[w].response = "already_marked" /\ db' = db)]_vars

\* C4: once a session of (employee, day) is closed, every request of that
\* employee decided on that day is answered already_marked and leaves the
\* ledger as it is.
C4_ClosedIsTerminal ==
    [][\A w \in Workers :
          (/\ Decides(w)
           /\ \E i \in SessionsOf(req[w].best_match, Day(req[w].now)) :
                 db[i].time_out # None)
          => (req'[w].response = "already_marked" /\ db' = db)]_vars

\* C5: a request that found an open session clocks out (time_out = now,
\* reply clocked_out) iff now - time_in >= 600 seconds, and is refused with
\* minimum_time_not_met otherwise.
C5_ClockOutIffTenMinutes ==
    [][\A w \in Workers :
          (Decides(w) /\ req[w].existing # None /\ req[w].ex_time_out = None)
          => LET i == req[w].existing
                 elapsed == req[w].now - db[i].time_in
             IN  IF elapsed >= 600
                 THEN /\ req'[w].response = "clocked_out"
                      /\ db'[i].time_out = req[w].now
                 ELSE /\ req'[w].response = "minimum_time_not_met"
                      /\ db' = db]_vars

\* C5 witness: one attempt was refused and a session was closed exactly
\* 600 seconds after its time_in.
C5_Witness ==
    /\ \E w \in Workers : req[w].response = "minimum_time_not_met"
    /\ \E i \in DOMAIN db : db[i].time_out = db[i].time_in + 600

\* C6: a request refused as too soon changes no session and sends nothing.
C6_TooSoonMutatesNothing ==
    [][\A w \in Workers :
          (Decides(w) /\ req'[w].response = "minimum_time_not_met")
          => (db' = db /\ outbox' = outbox /\ req'[w].pc = "done")]_vars

\* C6 witness: two refused attempts and the session still open.
C6_Witness ==
    /\ \A w \in Workers :
          req[w].pc = "done" /\ req[w].response = "minimum_time_not_met"
    /\ Len(db) = 1 /\ db[1].time_out = None /\ outbox = {}

\* C7: a session is late iff its time_in is strictly after 09:30:00 of its
\* day (shift start 09:00 plus 30 minutes), present otherwise.
C7_LateIffAfterCutOff ==
    \A i \in DOMAIN db :
        db[i].status =
            IF db[i].time_in % 86400 > 9 * 3600 + 30 * 60 THEN "late" ELSE "present"

\* C7 witness: a session created at 09:30:00 exactly is present, one
\* created a second later is late.
C7_Witness ==
    \E i, j \in DOMAIN db :
        /\ db[i].time_in % 86400 = 34200 /\ db[i].status = "present"
        /\ db[j].time_in % 86400 = 34201 /\ db[j].status = "late"

\* C8: with somebody enrolled, the matching step accepts iff the best
\* similarity over the enrolled employees is >= the threshold.
C8_AcceptIffBestReachesThreshold ==
    [][\A w \in Workers :
          (Matches(w) /\ roster # {})
          => (req'[w].pc = "matched" <=> MaxScore(req[w].image) >= threshold)]_vars

\* C9: the candidate the matching loop selects is enrolled and has the
\* maximum similarity over the enrolled employees.
C9_SelectsMaximum ==
    \A w \in Workers :
        req[w].pc = "matched"
        => /\ req[w].best_match \in roster
           /\ req[w].image.sims[req[w].best_match] = MaxScore(req[w].image)
           /\ req[w].highest = MaxScore(req[w].image)

\* C9 witness: the selected employee beats another enrolled employee who
\* also reaches the threshold.
C9_Witness ==
    \E w \in Workers :
        /\ req[w].pc = "matched"
        /\ \E e \in roster :
              /\ req[w].image.sims[e] >= threshold
              /\ req[w].image.sims[e] < req[w].image.sims[req[w].best_match]

\* C10: when nobody is enrolled or no enrolled employee reaches the
\* threshold, the reply is not_recognized and no session is touched.
C10_MissIsNotRecognized ==
    [][\A w \in Workers :
          (Matches(w) /\ \A e \in roster : req[w].image.sims[e] < threshold)
          => /\ req'[w].pc = "done"
             /\ req'[w].response = "not_recognized"
             /\ db' = db /\ outbox' = outbox]_vars

\* C10 witness: a stranger was turned away while sessions exist.
C10_Witness ==
    /\ db # <<>>
    /\ \E w \in Workers : req[w].response = "not_recognized"

\* C11: every submitted image in which no face is found, with or without
\* the 'data:image' prefix, is answered no_face and touches no session.
C11_NoFaceIsNoFaceDetected ==
    [][\A w \in Workers :
          (/\ req[w].pc = "received" /\ req'[w].pc # "received"
           /\ req[w].image.kind # "missing" /\ ~req[w].image.face)
          => /\ req'[w].pc = "done"
             /\ req'[w].response = "no_face"
             /\ db' = db /\ outbox' = outbox]_vars

\* C12: the notification step, whether the send succeeds or fails, finds
\* the session committed, leaves the table as it is and returns the reply
\* that was decided before the send.
C12_NotifyFailureIsHarmless ==
    [][\A w \in Workers :
          (req[w].pc = "notify" /\ req'[w].pc # "notify")
          => /\ req[w].existing \in DOMAIN db
             /\ db' = db
             /\ req'[w].pc = "done"
             /\ req'[w].response = req[w].response
             /\ req'[w].response \in {"present", "late", "clocked_out"}
             /\ req'[w].best_match = req[w].best_match]_vars

\* C12 witness: a clock-out was answered and its session is closed although
\* every send so far has failed.
C12_Witness ==
    /\ outbox = {}
    /\ \E w \in Workers :
          /\ req[w].pc = "done" /\ req[w].response = "clocked_out"
          /\ \E i \in DOMAIN db :
                db[i].employee_id = req[w].best_match /\ db[i].time_out # None

\* C13: every closed session has time_out > time_in and lasted at least
\* 600 seconds.
C13_ClosedSessionsLastTenMinutes ==
    \A i \in DOMAIN db :
        db[i].time_out # None
        => /\ db[i].time_out > db[i].time_in
           /\ db[i].time_out - db[i].time_in >= 600

\* C13 witness: a session closed by two racing requests, the later reading
\* of the clock stored last.
C13_Witness ==
    \E i \in DOMAIN db :
        /\ db[i].time_out = db[i].time_in + 601
        /\ \A w \in Workers : req[w].response = "clocked_out"

\* C14: no step changes the employee, time_in or status of an existing
\* session.
C14_TimeInAndStatusFixed ==
    [][\A i \in DOMAIN db :
          /\ i \in DOMAIN db'
          /\ db'[i].employee_id = db[i].employee_id
          /\ db'[i].time_in = db[i].time_in
          /\ db'[i].status = db[i].status]_vars

\* C14 witness: a present session closed after the late cut-off of its day
\* is still present.
C14_Witness ==
    \E i \in DOMAIN db :
        /\ db[i].status = "present"
        /\ db[i].time_out # None
        /\ db[i].time_out > Midnight(db[i].time_in) + 34200

\* C15: two runs of the matching step on the same probe select the same
\* employee.
C15_SameProbeSameEmployee ==
    \A v, w \in Workers :
        (/\ req[v].pc = "matched" /\ req[w].pc = "matched"
         /\ req[v].image = req[w].image)
        => req[v].best_match = req[w].best_match

\* C16: a request deciding on day d for an employee all of whose sessions
\* belong to earlier days adds a session of day d with time_in = now, and
\* no deciding request changes a session of a day before its own.
C16_SessionsPartitionedByDay ==
    [][\A w \in Workers :
          Decides(w)
          => LET e == req[w].best_match
                 now == req[w].now
             IN  /\ (\A i \in DOMAIN db :
                        db[i].employee_id = e => Day(db[i].timestamp) < Day(now))
                    => /\ Len(db') = Len(db) + 1
                       /\ db'[Len(db')].employee_id = e
                       /\ db'[Len(db')].time_in = now
                       /\ db'[Len(db')].time_out = None
                       /\ req'[w].response \in {"present", "late"}
                 /\ \A i \in DOMAIN db :
                        Day(db[i].timestamp) < Day(now) => db'[i] = db[i]]_vars

\* C16 witness: an employee has a session of a later day while the session
\* of the earlier day is still open.
C16_Witness ==
    \E i, j \in DOMAIN db :
        /\ db[i].employee_id = db[j].employee_id
        /\ Day(db[i].timestamp) < Day(db[j].timestamp)
        /\ db[i].time_out = None
        /\ db[j].time_in = db[j].timestamp

====
